---- MODULE Spec2Model ----
(***************************************************************************)
(* Model of the Traits change-notification mechanism                       *)
(* (traits/trait_notifiers.py): the per-thread stack of notification       *)
(* exception handlers and the notification wrappers that call listeners.   *)
(***************************************************************************)
EXTENDS Integers, Sequences, FiniteSets, TLC

(***************************************************************************)
(* Bounds of the model.                                                    *)
(***************************************************************************)
\* total number of successful _push_handler calls in one behaviour
MaxPush == 2
\* number of wrappers
MaxRegs == 2
\* number of started threads that have not run yet
MaxUnits == 1

(***************************************************************************)
(* Values.                                                                 *)
(***************************************************************************)
Threads == {"t1", "t2"}

\* the value None of main_thread, ui_handler and of the handler argument
None == "None"

\* the sentinel of trait_base
Uninitialized == "Uninitialized"

\* the bound method NotificationExceptionHandler._log_exception
LogException == "_log_exception"

\* the handler arguments _push_handler is called with
PushHandlers == {None, "h1"}

\* the events (object, trait_name, old, new); the four positions hold
\* pairwise different values so that a projection is told from the original
Events == [object : {"obj"}, trait_name : {"x"},
           old : {Uninitialized, "v0"}, new : {"v1"}]

\* the exceptions in flight: an ordinary Exception, the handler-stack error
\* (an Exception subclass), and a BaseException that is no Exception
TraitNotificationError == "TraitNotificationError"
Exceptions == {"ValueError", TraitNotificationError, "KeyboardInterrupt"}

\* the exceptions the "except Exception" clauses catch, the ones in flight
\* when handle_exception is called
CaughtExceptions == {"ValueError", TraitNotificationError}

\* ui_thread = -1: the identity of no thread
NoThread == "-1"

\* the handlers set_ui_handler is called with
UIHandlers == {None, "ui_handler"}

\* the thread of control Thread( target = handler ).start() creates
DetachedUnit == "detached"

\* the wrapper classes
StaticClasses == {"StaticAnyTraitChangeNotifyWrapper",
                  "StaticTraitChangeNotifyWrapper"}
DynamicClasses == {"TraitChangeNotifyWrapper",
                   "ExtendedTraitChangeNotifyWrapper",
                   "FastUITraitChangeNotifyWrapper",
                   "NewTraitChangeNotifyWrapper"}

\* what a wrapper is built from: a plain function, a bound method (im_self
\* not None), or a plain function with a target
Forms == {"function", "method", "function_target"}

\* what a listener does when it is called: return, or raise
Behaviours == {"none"} \cup Exceptions

\* the wrappers' identities
RegIds == 1 .. MaxRegs

EventArgs(ev) == <<ev.object, ev.trait_name, ev.old, ev.new>>

VARIABLES
    handlers,       \* thread_local.handlers of each thread (<<>> while unset)
    has_handlers,   \* the threads whose thread_local has the attribute
    main_thread,    \* None, or the thread whose list main_thread aliases
    next_id,        \* identity of the next record _push_handler creates
    pushed_from,    \* history: per thread, the stacks successful pushes started from
    regs,           \* the notification wrappers, by identity
    owner,          \* the list of wrappers the wrappers' owner field refers to
    ui_thread,      \* the module global ui_thread
    ui_handler,     \* the module global ui_handler
    units,          \* the threads NewTraitChangeNotifyWrapper started, not yet run
    anytrait,       \* the list of the wrappers notified of every trait of the object
    iter,           \* the notification of the lists that is under way
    last            \* the most recent call and what it did

hvars == <<handlers, has_handlers, main_thread, next_id, pushed_from>>
fvars == <<anytrait, iter>>
nvars == <<regs, owner, ui_thread, ui_handler, units, anytrait, iter>>
vars == <<handlers, has_handlers, main_thread, next_id, pushed_from,
          regs, owner, ui_thread, ui_handler, units, anytrait, iter, last>>

(***************************************************************************)
(* NotificationExceptionHandlerState                                       *)
(***************************************************************************)
NotificationExceptionHandlerState(handler, reraise_exceptions, locked, id) ==
    [handler |-> handler, reraise_exceptions |-> reraise_exceptions,
     locked |-> locked, id |-> id]

\* the record _get_handlers builds when no main thread is designated; every
\* such record is a different object with the same fields (identity 0)
BuiltinDefault == NotificationExceptionHandlerState(LogException, FALSE, FALSE, 0)

NoState == NotificationExceptionHandlerState(None, FALSE, FALSE, -1)

Top(hs) == hs[Len(hs)]

\* the object the wrappers' weak references refer to: the receiver of the
\* bound method, or the target
Receiver == "recv"

\* what equals is called with: a wrapper (id), a bound method (its name and
\* im_self), or a function (func)
NoCallback == [kind |-> "none", id |-> 0, name |-> "none", im_self |-> "none",
               func |-> "none"]

Callbacks ==
    {[NoCallback EXCEPT !.kind = "wrapper", !.id = q] : q \in RegIds}
        \cup {[NoCallback EXCEPT !.kind = "method", !.name = n, !.im_self = o] :
                  n \in {"m", "n"}, o \in {Receiver, "other"}}
        \cup {[NoCallback EXCEPT !.kind = "function", !.func = f] :
                  f \in {"f", "g"}}

\* what one call did: the exception it raised to its caller (or "none"), the
\* calls of exception handlers it made, the value it returned
\* (excp: the exception raised inside the call, caught or not), the listener
\* calls it made, the ui_handler calls it made and the threads it started;
\* for the construction of a wrapper, what the handler is (form) and the
\* number of positional parameters it declares (co_argcount); for
\* _push_handler, its argument main; for equals, its argument (callback)
\* and the value it returned (result)
NoCall == [op |-> "none", t |-> "t1", reg |-> 0,
           form |-> "function", co_argcount |-> 0, main |-> FALSE,
           callback |-> NoCallback, result |-> "none",
           ev |-> CHOOSE e \in Events : TRUE,
           excp |-> "none", raised |-> "none", hcalls |-> <<>>, ret |-> NoState,
           calls |-> <<>>, ui_calls |-> <<>>, started |-> <<>>]

(***************************************************************************)
(* NotificationExceptionHandler._get_handlers                              *)
(***************************************************************************)
GetHandlers(t) ==
    IF t \in has_handlers
    THEN handlers[t]
    ELSE IF main_thread # None
         THEN <<Top(handlers[main_thread])>>
         ELSE <<BuiltinDefault>>

\* a thread_local that is one object for all threads: every thread that has
\* used its stack sees the list stored last
StoreHandlers_Shared(t, hs) ==
    [u \in Threads |-> IF u \in has_handlers \cup {t} THEN hs ELSE handlers[u]]

\* thread_local.handlers of thread t after the call: the list hs
StoreHandlers(t, hs) == [handlers EXCEPT ![t] = hs]

(***************************************************************************)
(* NotificationExceptionHandler._check_lock: TRUE when it raises           *)
(***************************************************************************)
\* a lock check that looks at the oldest record instead of the newest
CheckLockRaises_Bottom(hs) == hs[1].locked

CheckLockRaises(hs) == Top(hs).locked

(***************************************************************************)
(* NotificationExceptionHandler._push_handler                              *)
(***************************************************************************)
PushedState(handler, reraise_exceptions, locked) ==
    NotificationExceptionHandlerState(
        IF handler = None THEN LogException ELSE handler,
        reraise_exceptions, locked, next_id)

PushResult(hs, handler, reraise_exceptions, locked) ==
    Append(hs, PushedState(handler, reraise_exceptions, locked))

PushHandler(t, handler, reraise_exceptions, main, locked) ==
    \E hs \in {GetHandlers(t)} :
    /\ has_handlers' = has_handlers \cup {t}
    /\ IF CheckLockRaises(hs)
       THEN /\ handlers' = StoreHandlers(t, hs)
            /\ UNCHANGED <<main_thread, next_id, pushed_from>>
            /\ last' = [NoCall EXCEPT !.op = "push", !.t = t,
                                      !.raised = TraitNotificationError]
       ELSE \E hs2 \in {PushResult(hs, handler, reraise_exceptions, locked)} :
            /\ next_id <= MaxPush
            /\ handlers' = StoreHandlers(t, hs2)
            /\ main_thread' = IF main THEN t ELSE main_thread
            /\ next_id' = next_id + 1
            /\ pushed_from' = [pushed_from EXCEPT ![t] = Append(@, hs)]
            /\ last' = [NoCall EXCEPT !.op = "push", !.t = t, !.main = main,
                                      !.ret = hs2[Len(hs2) - 1]]

(***************************************************************************)
(* NotificationExceptionHandler._pop_handler                               *)
(***************************************************************************)
\* a pop that accepts a stack of one record
PopAllowed_OffByOne(hs) == Len(hs) > 0

PopAllowed(hs) == Len(hs) > 1

\* a pop that removes the oldest record: handlers.pop( 0 )
PopResult_First(hs) == SubSeq(hs, 2, Len(hs))

PopResult(hs) == SubSeq(hs, 1, Len(hs) - 1)

PopHandler(t) ==
    \E hs \in {GetHandlers(t)} :
    /\ has_handlers' = has_handlers \cup {t}
    /\ UNCHANGED <<main_thread, next_id>>
    /\ IF CheckLockRaises(hs) \/ ~PopAllowed(hs)
       THEN /\ handlers' = StoreHandlers(t, hs)
            /\ UNCHANGED pushed_from
            /\ last' = [NoCall EXCEPT !.op = "pop", !.t = t,
                                      !.raised = TraitNotificationError]
       ELSE /\ handlers' = StoreHandlers(t, PopResult(hs))
            /\ pushed_from' = [pushed_from EXCEPT ![t] =
                                 IF Len(@) > 0 THEN SubSeq(@, 1, Len(@) - 1) ELSE @]
            /\ last' = [NoCall EXCEPT !.op = "pop", !.t = t]

(***************************************************************************)
(* NotificationExceptionHandler._handle_exception                          *)
(***************************************************************************)
HandlerInfo(hs) == Top(hs)

HandlerArgs(ev) == EventArgs(ev)

\* a re-raise that forgets the handler-stack errors
Reraises_FlagOnly(handler_info, excp) == handler_info.reraise_exceptions

Reraises(handler_info, excp) ==
    handler_info.reraise_exceptions \/ excp = TraitNotificationError

\* the handler calls made and the exception raised, for the stack hs
HandleCalls(hs, ev) ==
    <<[handler |-> HandlerInfo(hs).handler, id |-> HandlerInfo(hs).id,
       args |-> HandlerArgs(ev)]>>

HandleRaised(hs, excp) ==
    IF Reraises(HandlerInfo(hs), excp) THEN excp ELSE "none"

HandleException(t, ev, excp) ==
    \E hs \in {GetHandlers(t)} :
    /\ has_handlers' = has_handlers \cup {t}
    /\ handlers' = StoreHandlers(t, hs)
    /\ UNCHANGED <<main_thread, next_id, pushed_from>>
    /\ last' = [NoCall EXCEPT !.op = "handle", !.t = t, !.ev = ev,
                              !.excp = excp,
                              !.hcalls = HandleCalls(hs, ev),
                              !.raised = HandleRaised(hs, excp)]

(***************************************************************************)
(* The wrappers' fields.  object is "unset" (no attribute), "ref" (a       *)
(* weakref.ref) or None; alive tells whether the referent of the weak      *)
(* reference still exists; pc is the position of the weak reference's      *)
(* callback listener_deleted: "idle", "pending" (the referent is gone, the *)
(* callback has not run yet), "done"; disposed records that dispose was    *)
(* called.                                                                 *)
(***************************************************************************)
NoWrapper ==
    [cls |-> "none", form |-> "function", arg_count |-> 0, call_kind |-> "none",
     handler |-> "unset", object |-> "unset", name |-> "unset",
     owner |-> "unset", alive |-> TRUE, pc |-> "idle", disposed |-> FALSE]

(***************************************************************************)
(* AbstractStaticChangeNotifyWrapper.__init__ and                          *)
(* TraitChangeNotifyWrapper.init: the wrapper built for a handler that     *)
(* declares co_argcount positional parameters, and whether the             *)
(* construction succeeds (it raises TraitNotificationError otherwise).     *)
(***************************************************************************)
MaxArguments == 4

\* an arity that counts the receiver of a bound method
InitArgCount_CountsSelf(cls, form, co_argcount) == co_argcount

InitArgCount(cls, form, co_argcount) ==
    IF cls \in DynamicClasses /\ form = "method"
    THEN co_argcount - 1
    ELSE co_argcount

InitAccepts(arg_count) == ~(arg_count > MaxArguments)

InitWrapper(cls, form, co_argcount) ==
    LET arg_count == InitArgCount(cls, form, co_argcount) IN
    IF cls \in StaticClasses
    THEN [NoWrapper EXCEPT !.cls = cls, !.arg_count = arg_count,
                           !.call_kind = "static", !.handler = "f"]
    ELSE IF form = "method"
    THEN [NoWrapper EXCEPT !.cls = cls, !.form = form, !.arg_count = arg_count,
                           !.call_kind = "rebind_call", !.object = "ref",
                           !.name = "m", !.owner = "list"]
    ELSE IF form = "function_target"
    THEN [NoWrapper EXCEPT !.cls = cls, !.form = form, !.arg_count = arg_count,
                           !.call_kind = "call", !.object = "ref",
                           !.owner = "list", !.name = None, !.handler = "f"]
    ELSE [NoWrapper EXCEPT !.cls = cls, !.form = form, !.arg_count = arg_count,
                           !.call_kind = "call", !.name = None, !.handler = "f"]

(***************************************************************************)
(* The argument tuples.                                                    *)
(***************************************************************************)
\* a table of the any-trait wrapper that hands on the new value in the
\* place of the name
StaticAnyTransform_NewForName(n, ev) ==
    CASE n = 0 -> <<>>
      [] n = 1 -> <<ev.object>>
      [] n = 2 -> <<ev.object, ev.new>>
      [] n = 3 -> <<ev.object, ev.trait_name, ev.new>>
      [] n = 4 -> <<ev.object, ev.trait_name, ev.old, ev.new>>

\* StaticAnyTraitChangeNotifyWrapper.argument_transforms
StaticAnyTransform(n, ev) ==
    CASE n = 0 -> <<>>
      [] n = 1 -> <<ev.object>>
      [] n = 2 -> <<ev.object, ev.trait_name>>
      [] n = 3 -> <<ev.object, ev.trait_name, ev.new>>
      [] n = 4 -> <<ev.object, ev.trait_name, ev.old, ev.new>>

\* a table of the static wrapper that leaves the old value out
StaticTransform_NoOld(n, ev) ==
    CASE n = 0 -> <<>>
      [] n = 1 -> <<ev.object>>
      [] n = 2 -> <<ev.object, ev.new>>
      [] n = 3 -> <<ev.object, ev.trait_name, ev.new>>
      [] n = 4 -> <<ev.object, ev.trait_name, ev.old, ev.new>>

\* StaticTraitChangeNotifyWrapper.argument_transforms
StaticTransform(n, ev) ==
    CASE n = 0 -> <<>>
      [] n = 1 -> <<ev.object>>
      [] n = 2 -> <<ev.object, ev.new>>
      [] n = 3 -> <<ev.object, ev.old, ev.new>>
      [] n = 4 -> <<ev.object, ev.trait_name, ev.old, ev.new>>

\* call_n handing on the arguments of the listeners of every trait
CallArgs_AnyTable(n, ev) ==
    CASE n = 0 -> <<>>
      [] n = 1 -> <<ev.object>>
      [] n = 2 -> <<ev.object, ev.trait_name>>
      [] n = 3 -> <<ev.object, ev.trait_name, ev.new>>
      [] n = 4 -> <<ev.object, ev.trait_name, ev.old, ev.new>>

\* the arguments call_n and rebind_call_n hand to dispatch
CallArgs(n, ev) ==
    CASE n = 0 -> <<>>
      [] n = 1 -> <<ev.new>>
      [] n = 2 -> <<ev.trait_name, ev.new>>
      [] n = 3 -> <<ev.object, ev.trait_name, ev.new>>
      [] n = 4 -> <<ev.object, ev.trait_name, ev.old, ev.new>>

\* whether getattr( self, self.call_method ) finds a method
MethodExists(n) == n \in 0 .. 4

(***************************************************************************)
(* dispatch: what the call of the listener does in thread t.  beh is what  *)
(* the listener does when it runs.                                         *)
(***************************************************************************)
NoDispatch == [calls |-> <<>>, ui_calls |-> <<>>, started |-> <<>>,
               excp |-> "none"]

\* handler( *args )
Inline(r, t, args, beh) ==
    [NoDispatch EXCEPT !.calls = <<[reg |-> r, args |-> args, by |-> t]>>,
                       !.excp = beh]

\* a dispatch that calls the handler itself when there is no ui_handler
UIDispatch_InlineWithoutHandler(r, t, args, beh) ==
    IF t = ui_thread \/ ui_handler = None
    THEN Inline(r, t, args, beh)
    ELSE [NoDispatch EXCEPT
             !.ui_calls = <<[reg |-> r, args |-> args, by |-> t]>>]

\* FastUITraitChangeNotifyWrapper.dispatch
UIDispatch(r, t, args, beh) ==
    IF t = ui_thread
    THEN Inline(r, t, args, beh)
    ELSE IF ui_handler = None
         THEN [NoDispatch EXCEPT !.excp = "TypeError"]
         ELSE [NoDispatch EXCEPT
                  !.ui_calls = <<[reg |-> r, args |-> args, by |-> t]>>]

\* a dispatch that calls the handler itself where it should start a thread
NewDispatch_Inline(r, t, args, beh) ==
    [NoDispatch EXCEPT !.calls = <<[reg |-> r, args |-> args, by |-> t]>>,
                       !.excp = beh]

\* NewTraitChangeNotifyWrapper.dispatch
NewDispatch(r, t, args, beh) ==
    [NoDispatch EXCEPT !.started = <<[reg |-> r, args |-> args]>>]

Dispatch(r, cls, t, args, beh) ==
    CASE cls = "FastUITraitChangeNotifyWrapper" -> UIDispatch(r, t, args, beh)
      [] cls = "NewTraitChangeNotifyWrapper" -> NewDispatch(r, t, args, beh)
      [] OTHER -> Inline(r, t, args, beh)

(***************************************************************************)
(* try: ... except Exception: handle_exception( object, trait_name, old,   *)
(* new ), around the outcome d of the guarded statements.                  *)
(***************************************************************************)
\* a bare "except:" clause, which catches everything
IsException_Bare(excp) == excp # "none"

IsException(excp) == excp \notin {"none", "KeyboardInterrupt"}

NoOutcome == [calls |-> <<>>, ui_calls |-> <<>>, started |-> <<>>,
              excp |-> "none", handled |-> FALSE, hcalls |-> <<>>,
              raised |-> "none"]

\* no notification of the lists is under way
NoIter == [active |-> FALSE, t |-> "t1", ev |-> CHOOSE e \in Events : TRUE,
           snapshot |-> <<>>, todo |-> <<>>, out |-> NoOutcome]

TryExcept(t, ev, d) ==
    [calls |-> d.calls, ui_calls |-> d.ui_calls, started |-> d.started,
     excp |-> d.excp,
     handled |-> IsException(d.excp),
     hcalls |-> IF IsException(d.excp)
                THEN HandleCalls(GetHandlers(t), ev) ELSE <<>>,
     raised |-> IF IsException(d.excp)
                THEN HandleRaised(GetHandlers(t), d.excp) ELSE d.excp]

(***************************************************************************)
(* The wrappers' __call__.                                                 *)
(***************************************************************************)
\* AbstractStaticChangeNotifyWrapper.__call__
StaticArgs(w, ev) ==
    IF w.cls = "StaticAnyTraitChangeNotifyWrapper"
    THEN StaticAnyTransform(w.arg_count, ev)
    ELSE StaticTransform(w.arg_count, ev)

StaticCall(r, w, t, ev, beh) ==
    IF ev.old # Uninitialized
    THEN TryExcept(t, ev, Inline(r, t, StaticArgs(w, ev), beh))
    ELSE NoOutcome

\* the test call_n and rebind_call_n make on old
\* (ExtendedTraitChangeNotifyWrapper overrides them without it)
OldAllows_NoTest(cls, ev) == TRUE

OldAllows(cls, ev) ==
    cls = "ExtendedTraitChangeNotifyWrapper" \/ ev.old # Uninitialized

\* call_0 .. call_4
PlainCall(r, w, t, ev, beh) ==
    IF OldAllows(w.cls, ev)
    THEN TryExcept(t, ev, Dispatch(r, w.cls, t, CallArgs(w.arg_count, ev), beh))
    ELSE NoOutcome

\* the test rebind_call_n makes on self.object
ObjectAllows(w) == w.object # None

\* getattr( obj(), self.name ): obj() is None once the referent is gone
RebindDispatch(r, w, t, ev, beh) ==
    IF w.alive
    THEN Dispatch(r, w.cls, t, CallArgs(w.arg_count, ev), beh)
    ELSE [NoDispatch EXCEPT !.excp = "AttributeError"]

\* rebind_call_0 .. rebind_call_4
RebindCall(r, w, t, ev, beh) ==
    IF ObjectAllows(w) /\ OldAllows(w.cls, ev)
    THEN TryExcept(t, ev, RebindDispatch(r, w, t, ev, beh))
    ELSE NoOutcome

\* TraitChangeNotifyWrapper.__call__
DynamicCall(r, w, t, ev, beh) ==
    IF ~MethodExists(w.arg_count)
    THEN [NoOutcome EXCEPT !.excp = "AttributeError",
                           !.raised = "AttributeError"]
    ELSE IF w.call_kind = "rebind_call"
         THEN RebindCall(r, w, t, ev, beh)
         ELSE PlainCall(r, w, t, ev, beh)

WrapperCall(r, t, ev, beh) ==
    IF regs[r].cls \in StaticClasses
    THEN StaticCall(r, regs[r], t, ev, beh)
    ELSE DynamicCall(r, regs[r], t, ev, beh)

\* the effect of one call on the calling thread's handler stack
\* (_get_handlers creates it when handle_exception runs)
HandledIn(t, handled) ==
    /\ has_handlers' = IF handled THEN has_handlers \cup {t} ELSE has_handlers
    /\ handlers' = IF handled THEN StoreHandlers(t, GetHandlers(t))
                   ELSE handlers
    /\ UNCHANGED <<main_thread, next_id, pushed_from>>

\* one call wrapper( object, trait_name, old, new ) in thread t
NotifyWrapper(t, r, ev, beh) ==
    \E out \in {WrapperCall(r, t, ev, beh)} :
    /\ regs[r].cls # "none"
    /\ Len(units) + Len(out.started) <= MaxUnits
    /\ HandledIn(t, out.handled)
    /\ units' = units \o out.started
    /\ UNCHANGED <<fvars, regs, owner, ui_thread, ui_handler>>
    /\ last' = [NoCall EXCEPT !.op = "notify", !.t = t, !.reg = r, !.ev = ev,
                              !.excp = out.excp, !.raised = out.raised,
                              !.hcalls = out.hcalls, !.calls = out.calls,
                              !.ui_calls = out.ui_calls,
                              !.started = out.started]

\* a started thread runs: threading calls handler( *args ) and the thread ends
RunUnit(i, beh) ==
    /\ i \in 1 .. Len(units)
    /\ units' = SubSeq(units, 1, i - 1) \o SubSeq(units, i + 1, Len(units))
    /\ UNCHANGED <<fvars, hvars, regs, owner, ui_thread, ui_handler>>
    /\ last' = [NoCall EXCEPT !.op = "unit", !.t = DetachedUnit,
                              !.reg = units[i].reg, !.excp = beh,
                              !.calls = <<[reg |-> units[i].reg,
                                           args |-> units[i].args,
                                           by |-> DetachedUnit]>>]

(***************************************************************************)
(* set_ui_handler                                                          *)
(***************************************************************************)
SetUIHandler(t, handler) ==
    /\ ui_handler' = handler
    /\ ui_thread' = t
    /\ UNCHANGED <<fvars, hvars, regs, owner, units>>
    /\ last' = [NoCall EXCEPT !.op = "set_ui_handler", !.t = t]

(***************************************************************************)
(* The wrappers' life: construction, dispose, the collection of the        *)
(* weakly referenced object, and the callback listener_deleted.            *)
(***************************************************************************)
\* a list that gets the new wrapper at its front
RegisterEntry_Front(list, r) == <<r>> \o list

\* the notifier list gets the new wrapper at its end
RegisterEntry(list, r) == Append(list, r)

Construct(t, r, cls, form, co_argcount) ==
    /\ regs[r].cls = "none"
    /\ IF InitAccepts(InitArgCount(cls, form, co_argcount))
       THEN /\ regs' = [regs EXCEPT ![r] = InitWrapper(cls, form, co_argcount)]
            /\ owner' = RegisterEntry(owner, r)
            /\ last' = [NoCall EXCEPT !.op = "register", !.t = t, !.reg = r,
                                      !.form = form,
                                      !.co_argcount = co_argcount]
       ELSE /\ UNCHANGED <<regs, owner>>
            /\ last' = [NoCall EXCEPT !.op = "register", !.t = t, !.reg = r,
                                      !.form = form,
                                      !.co_argcount = co_argcount,
                                      !.raised = TraitNotificationError]
    /\ UNCHANGED <<fvars, hvars, ui_thread, ui_handler, units>>

\* TraitChangeNotifyWrapper.dispose
DisposedObject(w) == None

Dispose(t, r) ==
    /\ regs[r].cls \in DynamicClasses
    /\ regs' = [regs EXCEPT ![r].object = DisposedObject(regs[r]),
                            ![r].disposed = TRUE]
    /\ UNCHANGED <<fvars, hvars, owner, ui_thread, ui_handler, units>>
    /\ last' = [NoCall EXCEPT !.op = "dispose", !.t = t, !.reg = r]

\* the referent of weakref.ref( object, self.listener_deleted ) goes away;
\* the callback runs only if the weak reference itself still exists
Collect(r) ==
    /\ regs[r].cls \in DynamicClasses
    /\ regs[r].form \in {"method", "function_target"}
    /\ regs[r].alive
    /\ regs' = [regs EXCEPT ![r].alive = FALSE,
                            ![r].pc = IF regs[r].object = "ref"
                                      THEN "pending" ELSE @]
    /\ UNCHANGED <<fvars, hvars, owner, ui_thread, ui_handler, units>>
    /\ last' = [NoCall EXCEPT !.op = "collect", !.reg = r]

\* list.remove: the first occurrence goes; ValueError when there is none
RemoveFirst(list, r) ==
    IF \E i \in 1 .. Len(list) : list[i] = r
    THEN LET i == CHOOSE i \in 1 .. Len(list) :
                      /\ list[i] = r
                      /\ \A j \in 1 .. (i - 1) : list[j] # r
         IN SubSeq(list, 1, i - 1) \o SubSeq(list, i + 1, Len(list))
    ELSE list

\* self.owner.remove( self ) raises ValueError when the list does not hold
\* the wrapper
RemoveRaises(list, r) == ~\E i \in 1 .. Len(list) : list[i] = r

\* an except clause that names another error than the one list.remove raises
RemoveErrorCaught_KeyError(excp) == excp = "KeyError"

\* except ValueError: pass
RemoveErrorCaught(excp) == excp = "ValueError"

\* TraitChangeNotifyWrapper.listener_deleted, the callback of the weak
\* reference: it runs some time after the referent went away; an error that
\* escapes the try statement ends it before the assignment
ListenerDeletedCallback(r) ==
    \E excp \in {IF RemoveRaises(owner, r) THEN "ValueError" ELSE "none"} :
    /\ regs[r].pc = "pending"
    /\ owner' = RemoveFirst(owner, r)
    /\ IF excp = "none" \/ RemoveErrorCaught(excp)
       THEN /\ regs' = [regs EXCEPT ![r].pc = "done", ![r].object = None,
                                    ![r].owner = None]
            /\ last' = [NoCall EXCEPT !.op = "listener_deleted", !.reg = r,
                                      !.excp = excp]
       ELSE /\ regs' = [regs EXCEPT ![r].pc = "done"]
            /\ last' = [NoCall EXCEPT !.op = "listener_deleted", !.reg = r,
                                      !.excp = excp, !.raised = excp]
    /\ UNCHANGED <<fvars, hvars, ui_thread, ui_handler, units>>

(***************************************************************************)
(* equals: whether the wrapper stands for the handler it is given.         *)
(***************************************************************************)
NoEquals == [result |-> "none", raised |-> "none"]

\* self.object(): the referent of the weak reference, None once it is gone
Referent(w) == IF w.alive THEN Receiver ELSE None

\* the branch of a bound method: the names are compared first, then
\* self.object is called, which fails when it is None
EqualsMethod(w, cb) ==
    IF cb.name # w.name
    THEN [NoEquals EXCEPT !.result = "False"]
    ELSE IF w.object = None
         THEN [NoEquals EXCEPT !.raised = "TypeError"]
         ELSE [NoEquals EXCEPT !.result =
                  IF cb.im_self = Referent(w) THEN "True" ELSE "False"]

\* the last branch: (self.name is None) and (handler == self.handler)
EqualsHandler(w, cb) ==
    [NoEquals EXCEPT !.result =
        IF w.name = None /\ cb.kind = "function" /\ cb.func = w.handler
        THEN "True" ELSE "False"]

\* AbstractStaticChangeNotifyWrapper.equals and
\* TraitChangeNotifyWrapper.equals
Equals(r, w, cb) ==
    IF w.cls \in StaticClasses
    THEN [NoEquals EXCEPT !.result = "False"]
    ELSE IF cb.kind = "wrapper" /\ cb.id = r
         THEN [NoEquals EXCEPT !.result = "True"]
         ELSE IF cb.kind = "method"
              THEN EqualsMethod(w, cb)
              ELSE EqualsHandler(w, cb)

\* one call wrapper.equals( handler ) in thread t; a bound method of the
\* receiver exists only while the receiver does, and a wrapper given as
\* handler has been built
EqualsCall(t, r, cb) ==
    \E out \in {Equals(r, regs[r], cb)} :
    /\ regs[r].cls # "none"
    /\ cb.im_self = Receiver => regs[r].alive
    /\ cb.kind = "wrapper" => regs[cb.id].cls # "none"
    /\ last' = [NoCall EXCEPT !.op = "equals", !.t = t, !.reg = r,
                              !.callback = cb, !.result = out.result,
                              !.raised = out.raised]
    /\ UNCHANGED <<hvars, nvars>>

(***************************************************************************)
(* The exception-handler stack on its own: any thread pushes, pops and     *)
(* handles in any order.                                                   *)
(***************************************************************************)
\* the state after the module is imported
ModuleInit ==
    /\ handlers = [t \in Threads |-> <<>>]
    /\ has_handlers = {}
    /\ main_thread = None
    /\ next_id = 1
    /\ pushed_from = [t \in Threads |-> <<>>]
    /\ regs = [r \in RegIds |-> NoWrapper]
    /\ owner = <<>>
    /\ ui_thread = NoThread
    /\ ui_handler = None
    /\ units = <<>>
    /\ anytrait = <<>>
    /\ iter = NoIter
    /\ last = NoCall

HInit == ModuleInit

Push ==
    /\ \E t \in Threads, handler \in PushHandlers,
          reraise_exceptions \in BOOLEAN, main \in BOOLEAN, locked \in BOOLEAN :
           PushHandler(t, handler, reraise_exceptions, main, locked)
    /\ UNCHANGED nvars

Pop ==
    /\ \E t \in Threads : PopHandler(t)
    /\ UNCHANGED nvars

Handle ==
    /\ \E t \in Threads, ev \in Events, excp \in CaughtExceptions :
           HandleException(t, ev, excp)
    /\ UNCHANGED nvars

HNext == Push \/ Pop \/ Handle

HandlerSpec == HInit /\ [][HNext]_vars

(***************************************************************************)
(* One wrapper of any class, from its construction on: notifications from  *)
(* any thread, dispose, the collection of its weakly referenced object,    *)
(* set_ui_handler, and threads that push a re-raising handler.             *)
(***************************************************************************)
\* the numbers of positional parameters the handlers declare
NotifyArgCounts == {2}

ValidForm(cls, form) == cls \in DynamicClasses \/ form = "function"

NInit == ModuleInit

NRegister ==
    \E t \in Threads, cls \in StaticClasses \cup DynamicClasses,
       form \in Forms, co_argcount \in NotifyArgCounts :
        /\ ValidForm(cls, form)
        /\ Construct(t, 1, cls, form, co_argcount)

Notify ==
    \E t \in Threads, ev \in Events, beh \in Behaviours :
        NotifyWrapper(t, 1, ev, beh)

DisposeWrapper == \E t \in Threads, r \in RegIds : Dispose(t, r)

CollectReferent == \E r \in RegIds : Collect(r)

ListenerDeleted == \E r \in RegIds : ListenerDeletedCallback(r)

SetUI == \E t \in Threads, handler \in UIHandlers : SetUIHandler(t, handler)

RunDetached == \E i \in 1 .. MaxUnits, beh \in Behaviours : RunUnit(i, beh)

PushReraise ==
    /\ \E t \in Threads :
          /\ Len(GetHandlers(t)) = 1
          /\ PushHandler(t, "h1", TRUE, FALSE, FALSE)
    /\ UNCHANGED nvars

NNext ==
    \/ NRegister
    \/ Notify
    \/ DisposeWrapper
    \/ CollectReferent
    \/ ListenerDeleted
    \/ SetUI
    \/ RunDetached
    \/ PushReraise

NotifySpec == NInit /\ [][NNext]_vars

(***************************************************************************)
(* The started threads under a fair scheduler: a wrapper of class          *)
(* NewTraitChangeNotifyWrapper is built and notified, its receiver goes,   *)
(* and every thread that was started gets to run.                          *)
(***************************************************************************)
DRegister ==
    \E t \in Threads, form \in Forms, co_argcount \in NotifyArgCounts :
        Construct(t, 1, "NewTraitChangeNotifyWrapper", form, co_argcount)

DNext ==
    \/ DRegister
    \/ Notify
    \/ DisposeWrapper
    \/ CollectReferent
    \/ ListenerDeleted
    \/ RunDetached

\* Thread( ... ).start(): the interpreter schedules every started thread
DetachedFairness == WF_vars(\E beh \in Behaviours : RunUnit(1, beh))

DetachedSpec == NInit /\ [][DNext]_vars /\ DetachedFairness

(***************************************************************************)
(* The notifier list of one trait: wrappers are added at its end and       *)
(* removed from it, a notification calls every wrapper of the list in      *)
(* order.                                                                  *)
(***************************************************************************)
\* the outcome of one call followed by the outcome of the calls after it
ThenOutcome(o, rest) ==
    [calls |-> o.calls \o rest.calls,
     ui_calls |-> o.ui_calls \o rest.ui_calls,
     started |-> o.started \o rest.started,
     excp |-> IF o.excp # "none" THEN o.excp ELSE rest.excp,
     handled |-> o.handled \/ rest.handled,
     hcalls |-> o.hcalls \o rest.hcalls,
     raised |-> IF o.raised # "none" THEN o.raised ELSE rest.raised]

\* the wrappers one notification calls: the trait's list, then the list of
\* the wrappers notified of every trait of the object
NotifierOrder(per_trait, any_trait) == per_trait \o any_trait

\* a loop that an exception raised by a wrapper ends
LoopContinues_StopOnRaise(raised) == raised = "none"

\* a wrapper that raised does not keep the wrappers after it from being called
LoopContinues(raised) == TRUE

RECURSIVE NotifyList(_, _, _, _)
NotifyList(list, t, ev, behs) ==
    IF list = <<>>
    THEN NoOutcome
    ELSE CHOOSE out \in UNION
             {{ThenOutcome(o, rest) :
                   rest \in {IF LoopContinues(o.raised)
                             THEN NotifyList(Tail(list), t, ev, behs)
                             ELSE NoOutcome}} :
                  o \in {WrapperCall(Head(list), t, ev, behs[Head(list)])}} : TRUE

NotifyAll(t, ev, behs) ==
    \E out \in {NotifyList(NotifierOrder(owner, anytrait), t, ev, behs)} :
    /\ NotifierOrder(owner, anytrait) # <<>>
    /\ Len(units) + Len(out.started) <= MaxUnits
    /\ HandledIn(t, out.handled)
    /\ units' = units \o out.started
    /\ UNCHANGED <<fvars, regs, owner, ui_thread, ui_handler>>
    /\ last' = [NoCall EXCEPT !.op = "notify_all", !.t = t, !.ev = ev,
                              !.excp = out.excp, !.raised = out.raised,
                              !.hcalls = out.hcalls, !.calls = out.calls,
                              !.ui_calls = out.ui_calls,
                              !.started = out.started]

\* the wrapper is taken out of the notifier list
Unregister(t, r) ==
    /\ \E i \in 1 .. Len(owner) : owner[i] = r
    /\ owner' = RemoveFirst(owner, r)
    /\ UNCHANGED <<fvars, hvars, regs, ui_thread, ui_handler, units>>
    /\ last' = [NoCall EXCEPT !.op = "unregister", !.t = t, !.reg = r]

\* the same notification, one wrapper at a time, with other threads running
\* between the calls: it goes through the wrappers the lists held when it
\* began
IterBegin(t, ev) ==
    \E list \in {NotifierOrder(owner, anytrait)} :
    /\ ~iter.active
    /\ list # <<>>
    /\ iter' = [active |-> TRUE, t |-> t, ev |-> ev, snapshot |-> list,
                todo |-> list, out |-> NoOutcome]
    /\ last' = [NoCall EXCEPT !.op = "notify_begin", !.t = t, !.ev = ev]
    /\ UNCHANGED <<hvars, regs, owner, ui_thread, ui_handler, units, anytrait>>

IterStep(beh) ==
    /\ iter.active
    /\ iter.todo # <<>>
    /\ LoopContinues(iter.out.raised)
    /\ \E o \in {WrapperCall(Head(iter.todo), iter.t, iter.ev, beh)} :
           /\ Len(units) + Len(o.started) <= MaxUnits
           /\ HandledIn(iter.t, o.handled)
           /\ units' = units \o o.started
           /\ iter' = [iter EXCEPT !.todo = Tail(@), !.out = ThenOutcome(@, o)]
    /\ last' = [NoCall EXCEPT !.op = "notify_step", !.t = iter.t,
                              !.reg = Head(iter.todo)]
    /\ UNCHANGED <<regs, owner, ui_thread, ui_handler, anytrait>>

IterEnd ==
    /\ iter.active
    /\ iter.todo = <<>> \/ ~LoopContinues(iter.out.raised)
    /\ iter' = [iter EXCEPT !.active = FALSE]
    /\ last' = [NoCall EXCEPT !.op = "notify_done", !.t = iter.t,
                              !.ev = iter.ev, !.excp = iter.out.excp,
                              !.raised = iter.out.raised,
                              !.hcalls = iter.out.hcalls,
                              !.calls = iter.out.calls,
                              !.ui_calls = iter.out.ui_calls,
                              !.started = iter.out.started]
    /\ UNCHANGED <<hvars, regs, owner, ui_thread, ui_handler, units, anytrait>>

\* a wrapper notified of every trait of the object is built and added to the
\* object's list
ConstructAny(t, r, cls, co_argcount) ==
    /\ regs[r].cls = "none"
    /\ IF InitAccepts(InitArgCount(cls, "function", co_argcount))
       THEN /\ regs' = [regs EXCEPT ![r] = InitWrapper(cls, "function", co_argcount)]
            /\ anytrait' = RegisterEntry(anytrait, r)
            /\ last' = [NoCall EXCEPT !.op = "register", !.t = t, !.reg = r,
                                      !.co_argcount = co_argcount]
       ELSE /\ UNCHANGED <<regs, anytrait>>
            /\ last' = [NoCall EXCEPT !.op = "register", !.t = t, !.reg = r,
                                      !.co_argcount = co_argcount,
                                      !.raised = TraitNotificationError]
    /\ UNCHANGED <<hvars, owner, ui_thread, ui_handler, units, iter>>

\* the wrapper is taken out of the object's list
UnregisterAny(t, r) ==
    /\ \E i \in 1 .. Len(anytrait) : anytrait[i] = r
    /\ anytrait' = RemoveFirst(anytrait, r)
    /\ UNCHANGED <<hvars, regs, owner, ui_thread, ui_handler, units, iter>>
    /\ last' = [NoCall EXCEPT !.op = "unregister", !.t = t, !.reg = r]

\* what the listeners of the list do when they are called
ListBehaviours == {"none", "ValueError"}

\* the events of a change of the trait's value
ChangeEvents == {ev \in Events : ev.old # Uninitialized}

CInit == ModuleInit

CRegister ==
    \E t \in Threads, r \in RegIds, form \in Forms,
       co_argcount \in NotifyArgCounts :
        /\ \A q \in RegIds : q < r <=> regs[q].cls # "none"
        /\ Construct(t, r, "TraitChangeNotifyWrapper", form, co_argcount)

CNotify ==
    \E t \in Threads, ev \in ChangeEvents, behs \in [RegIds -> ListBehaviours] :
        NotifyAll(t, ev, behs)

CUnregister == \E t \in Threads, r \in RegIds : Unregister(t, r)

CNext ==
    \/ CRegister
    \/ CNotify
    \/ CUnregister
    \/ DisposeWrapper
    \/ CollectReferent
    \/ ListenerDeleted

CollectionSpec == CInit /\ [][CNext]_vars

(***************************************************************************)
(* One wrapper of any class built for a handler with any number of         *)
(* positional parameters, and the arguments its notifications hand to the  *)
(* listener.                                                               *)
(***************************************************************************)
\* the numbers of positional parameters the handlers declare: up to two
\* more than the wrappers accept
DeclaredArgCounts == 0 .. (MaxArguments + 2)

PInit == ModuleInit

PRegister ==
    \E t \in Threads, cls \in StaticClasses \cup DynamicClasses,
       form \in Forms, co_argcount \in DeclaredArgCounts :
        /\ ValidForm(cls, form)
        /\ Construct(t, 1, cls, form, co_argcount)

PNext ==
    \/ PRegister
    \/ Notify
    \/ DisposeWrapper
    \/ CollectReferent
    \/ ListenerDeleted
    \/ SetUI
    \/ RunDetached

ProjectionSpec == PInit /\ [][PNext]_vars

(***************************************************************************)
(* Wrappers asked whether they stand for a handler, at any point of their  *)
(* life.                                                                   *)
(***************************************************************************)
QInit == ModuleInit

QRegister ==
    \E t \in Threads, r \in RegIds, form \in Forms,
       cls \in {"TraitChangeNotifyWrapper", "StaticTraitChangeNotifyWrapper"},
       co_argcount \in NotifyArgCounts :
        /\ ValidForm(cls, form)
        /\ \A q \in RegIds : q < r <=> regs[q].cls # "none"
        /\ Construct(t, r, cls, form, co_argcount)

QEquals == \E t \in Threads, r \in RegIds, cb \in Callbacks : EqualsCall(t, r, cb)

QNext ==
    \/ QRegister
    \/ QEquals
    \/ DisposeWrapper
    \/ CollectReferent
    \/ ListenerDeleted

EqualsSpec == QInit /\ [][QNext]_vars

(***************************************************************************)
(* The two notifier lists of one trait of one object: the trait's own list *)
(* and the object's list of wrappers notified of every trait.  Threads     *)
(* that push a re-raising handler notify them too.                         *)
(***************************************************************************)
EInit == ModuleInit

ERegisterTrait ==
    \E t \in Threads, r \in RegIds, form \in {"function", "method"},
       co_argcount \in NotifyArgCounts :
        /\ \A q \in RegIds : q < r <=> regs[q].cls # "none"
        /\ Construct(t, r, "TraitChangeNotifyWrapper", form, co_argcount)

ERegisterAny ==
    \E t \in Threads, r \in RegIds, co_argcount \in NotifyArgCounts :
        /\ \A q \in RegIds : q < r <=> regs[q].cls # "none"
        /\ ConstructAny(t, r, "StaticAnyTraitChangeNotifyWrapper", co_argcount)

EUnregisterAny == \E t \in Threads, r \in RegIds : UnregisterAny(t, r)

ENext ==
    \/ ERegisterTrait
    \/ ERegisterAny
    \/ CNotify
    \/ CUnregister
    \/ EUnregisterAny
    \/ PushReraise

EngineSpec == EInit /\ [][ENext]_vars

(***************************************************************************)
(* A notification of the list that other threads interleave with: while it *)
(* goes from wrapper to wrapper, wrappers are added and removed, receivers *)
(* are collected and their callbacks run.                                  *)
(***************************************************************************)
IInit == ModuleInit

INotifyBegin == \E t \in Threads, ev \in ChangeEvents : IterBegin(t, ev)

INotifyStep == \E beh \in ListBehaviours : IterStep(beh)

INotifyEnd == IterEnd

INext ==
    \/ CRegister
    \/ CUnregister
    \/ CollectReferent
    \/ ListenerDeleted
    \/ INotifyBegin
    \/ INotifyStep
    \/ INotifyEnd
    \/ PushReraise

IterationSpec == IInit /\ [][INext]_vars

(***************************************************************************)
(* Properties of the exception-handler stack (HandlerSpec).                *)
(***************************************************************************)

\* C2: handle(object, name, old, new) calls the handler of the top record of
\* the calling thread's stack exactly once, with the event's own
\* (object, name, old, new), and afterwards re-raises the exception in flight
\* if and only if that record has reraise set or the exception is a
\* handler-stack error.
C2_HandleTopOnceAndReraise ==
    last.op = "handle" =>
        LET top == Top(handlers[last.t]) IN
        /\ Len(last.hcalls) = 1
        /\ last.hcalls[1].handler = top.handler
        /\ last.hcalls[1].id = top.id
        /\ last.hcalls[1].args =
               <<last.ev.object, last.ev.trait_name, last.ev.old, last.ev.new>>
        /\ (last.raised # "none") <=>
               (top.reraise_exceptions \/ last.excp = TraitNotificationError)
        /\ last.raised \in {"none", last.excp}

\* a handle on a stack of two records whose top does not re-raise, with a
\* handler-stack error in flight, which is re-raised
C2_Witness ==
    /\ last.op = "handle"
    /\ Len(handlers[last.t]) = 2
    /\ Top(handlers[last.t]).handler # handlers[last.t][1].handler
    /\ ~Top(handlers[last.t]).reraise_exceptions
    /\ last.excp = TraitNotificationError
    /\ last.raised = TraitNotificationError

\* C3: every thread's exception-handler stack holds at least one record, in
\* every reachable state, the stack a thread would start with included.
C3_StackNeverEmpty ==
    /\ \A t \in has_handlers : Len(handlers[t]) >= 1
    /\ \A t \in Threads : Len(GetHandlers(t)) >= 1

\* a failed pop left a one-record stack while another thread started from the
\* main thread's record
C3_Witness ==
    /\ last.op = "pop"
    /\ last.raised = TraitNotificationError
    /\ Len(handlers[last.t]) = 1
    /\ main_thread # None
    /\ \E u \in has_handlers : u # last.t /\ u # main_thread
                               /\ Len(handlers[u]) = 1

\* C4: pop() on a stack that holds exactly one record fails with a
\* handler-stack error and leaves that stack unchanged.
C4_PopLastFails ==
    [][(last'.op = "pop" /\ Len(GetHandlers(last'.t)) = 1) =>
           /\ last'.raised = TraitNotificationError
           /\ handlers'[last'.t] = GetHandlers(last'.t)]_vars

\* a pop has failed on a one-record stack whose record is not locked
C4_Witness ==
    /\ last.op = "pop"
    /\ last.raised = TraitNotificationError
    /\ Len(handlers[last.t]) = 1
    /\ ~Top(handlers[last.t]).locked

LockedTop(t) == t \in has_handlers /\ Top(handlers[t]).locked

\* C5 as stated: once a locked record is the top of a thread's stack, every
\* later push and pop of that thread fails, and neither that thread's stack
\* nor the main-thread designation ever changes again.
C5_LockedFreezesStackAndMain ==
    [][\A t \in Threads :
          LockedTop(t) =>
              /\ handlers'[t] = handlers[t]
              /\ main_thread' = main_thread
              /\ (last'.t = t /\ last'.op \in {"push", "pop"}) =>
                     last'.raised = TraitNotificationError]_vars

\* C5 amended: once a locked record is the top of a thread's stack, every
\* later push and pop of that thread fails with a handler-stack error, that
\* thread's stack never changes again, and no push or pop of that thread
\* changes the main-thread designation.
C5_LockedFreezesStack ==
    [][\A t \in Threads :
          LockedTop(t) =>
              /\ handlers'[t] = handlers[t]
              /\ (last'.t = t /\ last'.op \in {"push", "pop"}) =>
                     /\ last'.raised = TraitNotificationError
                     /\ main_thread' = main_thread]_vars

\* a push has failed in a thread whose top record is locked
C5_Witness ==
    /\ last.op = "push"
    /\ last.raised = TraitNotificationError
    /\ LockedTop(last.t)
    /\ Len(handlers[last.t]) = 2

\* C6: a successful pop gives back exactly the stack the matching push
\* started from, so n pushes followed by n pops leave the stack as it was;
\* with no push left to undo the stack is the one-record stack the thread
\* started with and pop fails with a handler-stack error.
C6_PopUndoesPush ==
    [][last'.op = "pop" =>
           LET t == last'.t IN
           IF pushed_from[t] = <<>>
           THEN /\ last'.raised = TraitNotificationError
                /\ handlers'[t] = GetHandlers(t)
                /\ Len(handlers'[t]) = 1
           ELSE IF Top(GetHandlers(t)).locked
                THEN last'.raised = TraitNotificationError
                ELSE /\ last'.raised = "none"
                     /\ handlers'[t] = Top(pushed_from[t])]_vars

\* one thread pushed twice and popped twice, its stack is the default record
\* again, and a further pop has failed
C6_Witness ==
    /\ last.op = "pop"
    /\ last.raised = TraitNotificationError
    /\ has_handlers = {last.t}
    /\ next_id = 3
    /\ pushed_from[last.t] = <<>>
    /\ handlers[last.t] = <<BuiltinDefault>>

(***************************************************************************)
(* Properties of one wrapper's notifications (NotifySpec).                 *)
(***************************************************************************)
\* the call did nothing: no listener called, no thread started, nothing
\* handed to ui_handler, no exception handler called, nothing raised
NothingDone ==
    /\ last.calls = <<>>
    /\ last.ui_calls = <<>>
    /\ last.started = <<>>
    /\ last.hcalls = <<>>
    /\ last.raised = "none"

\* the listener was called in the notifying thread and raised
ListenerRaised ==
    /\ last.op = "notify"
    /\ last.calls # <<>>
    /\ last.excp # "none"

\* the top record of the notifying thread's stack during the last call
TopOfCaller == Top(GetHandlers(last.t))

\* C1 as stated: an exception a listener raises during notify reaches the
\* caller of notify only if the top record of the calling thread has
\* reraise set; without reraise the call returns normally after the handler
\* has run.  A listener run by a started thread never reaches the caller.
C1_PropagatesOnlyOnReraise ==
    /\ ListenerRaised =>
           /\ last.raised # "none" => TopOfCaller.reraise_exceptions
           /\ ~TopOfCaller.reraise_exceptions =>
                  (last.raised = "none" /\ Len(last.hcalls) = 1)
    /\ last.op = "unit" => last.raised = "none"

\* C1 amended: an exception a listener raises during notify reaches the
\* caller only if the top record has reraise set, or the exception is a
\* handler-stack error, or it is no Exception (then no handler runs); an
\* ordinary Exception under reraise=False is handed to the top handler once
\* and the call returns normally.
C1_PropagatesOnReraiseOrStackError ==
    /\ ListenerRaised =>
           IF last.excp \in CaughtExceptions
           THEN /\ Len(last.hcalls) = 1
                /\ last.hcalls[1].id = TopOfCaller.id
                /\ last.hcalls[1].handler = TopOfCaller.handler
                /\ last.raised \in {"none", last.excp}
                /\ (last.raised # "none") <=>
                       \/ TopOfCaller.reraise_exceptions
                       \/ last.excp = TraitNotificationError
           ELSE /\ last.hcalls = <<>>
                /\ last.raised = last.excp
    /\ last.op = "unit" => (last.raised = "none" /\ last.hcalls = <<>>)

\* a listener raised ValueError under reraise=False: the handler ran and the
\* call returned
C1_Witness ==
    /\ ListenerRaised
    /\ last.excp = "ValueError"
    /\ ~TopOfCaller.reraise_exceptions
    /\ Len(last.hcalls) = 1
    /\ last.raised = "none"

\* C7 as stated: with old the uninitialized sentinel, notify on a wrapper
\* of any class does nothing.
C7_SentinelSkipsAll ==
    (last.op = "notify" /\ last.ev.old = Uninitialized) => NothingDone

\* C7 amended: with old the uninitialized sentinel, notify on a wrapper of
\* any class other than ExtendedTraitChangeNotifyWrapper does nothing.
C7_SentinelSkipsAllButExtended ==
    (/\ last.op = "notify"
     /\ last.ev.old = Uninitialized
     /\ regs[last.reg].cls # "ExtendedTraitChangeNotifyWrapper") => NothingDone

\* a notification with the sentinel to a live bound-method wrapper that
\* starts threads
C7_Witness ==
    /\ last.op = "notify"
    /\ last.ev.old = Uninitialized
    /\ regs[last.reg].cls = "NewTraitChangeNotifyWrapper"
    /\ regs[last.reg].call_kind = "rebind_call"
    /\ regs[last.reg].alive
    /\ regs[last.reg].object = "ref"
    /\ NothingDone

\* C8 as stated: after dispose() every notify on the wrapper does nothing,
\* for function listeners as for bound-method listeners.
C8_DisposedIsSilent ==
    (last.op = "notify" /\ regs[last.reg].disposed) => NothingDone

\* C9 as stated: for a bound-method wrapper, a notify issued once the
\* receiver is gone does nothing, wherever the callback listener_deleted
\* stands.
C9_GoneReceiverIsSilent ==
    (/\ last.op = "notify"
     /\ regs[last.reg].call_kind = "rebind_call"
     /\ ~regs[last.reg].alive) => NothingDone

(***************************************************************************)
(* Properties of the notifier list (CollectionSpec).                       *)
(***************************************************************************)
InList(r) == \E i \in 1 .. Len(owner) : owner[i] = r

\* the referent of wrapper r is gone and no callback of it is still to run
Collected(r) ==
    /\ regs[r].cls # "none"
    /\ ~regs[r].alive
    /\ regs[r].pc # "pending"

\* C10 as stated: once the weakly referenced receiver or target of a wrapper
\* has been collected (and the callback, if one is due, has run), the
\* wrapper is not in its owner list and a notification of the list does not
\* call its listener.
C10_CollectedIsAbsent ==
    /\ \A r \in RegIds : Collected(r) => ~InList(r)
    /\ last.op = "notify_all" =>
           \A i \in 1 .. Len(last.calls) : ~Collected(last.calls[i].reg)

\* the state dispose() and listener_deleted leave a wrapper in
IsDisposed(w) == w.object = None

\* C11: when the callback of a collected receiver finds its wrapper no longer
\* in the owner list (an unregister came first), it raises nothing, leaves
\* the list as it is and leaves the wrapper disposed.
C11_CallbackAfterRemovalIsQuiet ==
    [][(last'.op = "listener_deleted" /\ ~InList(last'.reg)) =>
           /\ last'.raised = "none"
           /\ owner' = owner
           /\ IsDisposed(regs'[last'.reg])]_vars

\* the callback ran for a wrapper that had been unregistered while another
\* wrapper is still in the list
C11_Witness ==
    /\ last.op = "listener_deleted"
    /\ last.excp = "ValueError"
    /\ last.raised = "none"
    /\ ~InList(last.reg)
    /\ owner # <<>>
    /\ IsDisposed(regs[last.reg])

(***************************************************************************)
(* Properties of a notification other threads interleave with             *)
(* (IterationSpec).                                                        *)
(***************************************************************************)
\* the number of calls of the listener of wrapper r the last call made
Deliveries(r) == Cardinality({i \in 1 .. Len(last.calls) : last.calls[i].reg = r})

InSnapshot(r) == \E i \in 1 .. Len(iter.snapshot) : iter.snapshot[i] = r

\* C12 as stated: a notification that wrappers were removed from the list
\* during (by unregister or by the callback of a collected receiver) has
\* called exactly once every listener whose wrapper was in the list when it
\* began and still is and whose receiver exists, has called no listener
\* twice, and has failed only where a listener raised.
C12_IterationIsConsistent ==
    last.op = "notify_done" =>
        /\ \A r \in RegIds :
               (InSnapshot(r) /\ InList(r) /\ regs[r].alive) => Deliveries(r) = 1
        /\ \A r \in RegIds : Deliveries(r) <= 1
        /\ Len(last.hcalls) <= Len(last.calls)
        /\ last.raised \in ListBehaviours

(***************************************************************************)
(* Properties of a notification of the two lists (EngineSpec).             *)
(***************************************************************************)
\* the wrappers of the two lists
Registered == {owner[i] : i \in 1 .. Len(owner)}
                  \cup {anytrait[i] : i \in 1 .. Len(anytrait)}

\* C13: in one notification, when listeners raise, every wrapper of the lists
\* is still called exactly once, those after a raising listener included,
\* whether or not the top record of the notifying thread re-raises.
C13_RaisingListenerDoesNotStopDelivery ==
    (last.op = "notify_all" /\ last.hcalls # <<>>) =>
        /\ \A r \in Registered : Deliveries(r) = 1
        /\ Len(last.calls) = Cardinality(Registered)

\* both of two listeners raised under a re-raising record: the second was
\* called after the first had raised, and the notification raised
C13_Witness ==
    /\ last.op = "notify_all"
    /\ TopOfCaller.reraise_exceptions
    /\ Len(last.hcalls) = 2
    /\ last.raised = "ValueError"
    /\ Len(last.calls) = 2
    /\ last.calls[1].reg # last.calls[2].reg

\* the wrappers the last call called, in the order of the calls
CalledOrder == [i \in 1 .. Len(last.calls) |-> last.calls[i].reg]

\* wrappers are numbered as they are registered: the list holds them in
\* the order of their registration
InRegistrationOrder(list) ==
    \A i, j \in 1 .. Len(list) : i < j => list[i] < list[j]

\* C14: one notification calls the wrappers of the trait's list in the order
\* of their registration and then the wrappers of the object's list in the
\* order of their registration; of two listeners registered on the same
\* trait the one registered first is called first.
C14_RegistrationOrder ==
    /\ InRegistrationOrder(owner)
    /\ InRegistrationOrder(anytrait)
    /\ last.op = "notify_all" => CalledOrder = owner \o anytrait

\* two listeners of the same trait were called, the first registered first
C14_Witness ==
    /\ last.op = "notify_all"
    /\ owner = <<1, 2>>
    /\ CalledOrder = <<1, 2>>

\* a listener of every trait registered before a listener of the trait was
\* called after it
C14_WitnessAnyLast ==
    /\ last.op = "notify_all"
    /\ owner = <<2>>
    /\ anytrait = <<1>>
    /\ CalledOrder = <<2, 1>>

(***************************************************************************)
(* Properties of the arguments handed to the listeners (ProjectionSpec).   *)
(***************************************************************************)
\* the table of the listeners of one trait
PerAttributeTable(a, ev) ==
    CASE a = 0 -> <<>>
      [] a = 1 -> <<ev.new>>
      [] a = 2 -> <<ev.trait_name, ev.new>>
      [] a = 3 -> <<ev.object, ev.trait_name, ev.new>>
      [] a = 4 -> <<ev.object, ev.trait_name, ev.old, ev.new>>

\* the table of the listeners of every trait
AnyAttributeTable(a, ev) ==
    CASE a = 0 -> <<>>
      [] a = 1 -> <<ev.object>>
      [] a = 2 -> <<ev.object, ev.trait_name>>
      [] a = 3 -> <<ev.object, ev.trait_name, ev.new>>
      [] a = 4 -> <<ev.object, ev.trait_name, ev.old, ev.new>>

\* the argument tuples the last call handed on: to the listener itself, to
\* ui_handler, to a started thread
HandedArgs ==
    [i \in 1 .. Len(last.calls) |-> last.calls[i].args]
        \o [i \in 1 .. Len(last.ui_calls) |-> last.ui_calls[i].args]
        \o [i \in 1 .. Len(last.started) |-> last.started[i].args]

\* the last call was a notification of a change to a wrapper that takes
\* arity 0 to 4
NotifiedChange ==
    /\ last.op = "notify"
    /\ last.ev.old # Uninitialized
    /\ regs[last.reg].arg_count \in 0 .. 4

\* the wrapper has a listener to call and a way to reach it: its receiver
\* exists and it is not disposed, and a wrapper that goes through ui_handler
\* is called in the UI thread or has a ui_handler
Reachable(w, t) ==
    /\ w.call_kind = "rebind_call" => (w.alive /\ w.object = "ref")
    /\ w.cls = "FastUITraitChangeNotifyWrapper" =>
           (t = ui_thread \/ ui_handler # None)

\* C15: a notification of a change to a dynamic wrapper of arity 0 to 4,
\* built for a function or for a bound method, hands the listener exactly
\* the arguments of the per-attribute table: (), (new), (name, new),
\* (object, name, new), (object, name, old, new).
C15_DynamicProjection ==
    (NotifiedChange /\ regs[last.reg].cls \in DynamicClasses) =>
        /\ \A i \in 1 .. Len(HandedArgs) :
               HandedArgs[i] = PerAttributeTable(regs[last.reg].arg_count, last.ev)
        /\ Reachable(regs[last.reg], last.t) => Len(HandedArgs) = 1

\* a bound-method listener of arity 3 was called with (object, name, new)
C15_Witness ==
    /\ NotifiedChange
    /\ regs[last.reg].cls = "TraitChangeNotifyWrapper"
    /\ regs[last.reg].call_kind = "rebind_call"
    /\ regs[last.reg].arg_count = 3
    /\ Len(last.calls) = 1
    /\ last.calls[1].args = <<last.ev.object, last.ev.trait_name, last.ev.new>>

\* the one call of the listener a static wrapper makes, with arguments args
OneCallWith(args) ==
    /\ Len(last.calls) = 1
    /\ last.calls[1].reg = last.reg
    /\ last.calls[1].by = last.t
    /\ last.calls[1].args = args
    /\ last.ui_calls = <<>>
    /\ last.started = <<>>

\* C16: a notification of a change to an any-trait wrapper
\* (StaticAnyTraitChangeNotifyWrapper) of arity 0 to 4 calls the listener
\* once with the arguments of the any-attribute table: (), (object),
\* (object, name), (object, name, new), (object, name, old, new).
C16_AnyTraitProjection ==
    (NotifiedChange /\ regs[last.reg].cls = "StaticAnyTraitChangeNotifyWrapper")
        => OneCallWith(AnyAttributeTable(regs[last.reg].arg_count, last.ev))

\* an any-trait listener of arity 2 was called with (object, name)
C16_Witness ==
    /\ NotifiedChange
    /\ regs[last.reg].cls = "StaticAnyTraitChangeNotifyWrapper"
    /\ regs[last.reg].arg_count = 2
    /\ OneCallWith(<<last.ev.object, last.ev.trait_name>>)

\* C17 as stated: a notification of a change to a static wrapper
\* (StaticTraitChangeNotifyWrapper) of arity 0 to 4 calls the listener with
\* the arguments of the per-attribute table of the dynamic wrappers.
C17_StaticUsesPerAttributeTable ==
    (NotifiedChange /\ regs[last.reg].cls = "StaticTraitChangeNotifyWrapper")
        => OneCallWith(PerAttributeTable(regs[last.reg].arg_count, last.ev))

\* the table of the static listeners of one trait, whose first parameter is
\* the object
StaticTable(a, ev) ==
    CASE a = 0 -> <<>>
      [] a = 1 -> <<ev.object>>
      [] a = 2 -> <<ev.object, ev.new>>
      [] a = 3 -> <<ev.object, ev.old, ev.new>>
      [] a = 4 -> <<ev.object, ev.trait_name, ev.old, ev.new>>

\* C17 amended: a notification of a change to a static wrapper of arity 0 to
\* 4 calls the listener once with (), (object), (object, new),
\* (object, old, new), (object, name, old, new).
C17_StaticProjection ==
    (NotifiedChange /\ regs[last.reg].cls = "StaticTraitChangeNotifyWrapper")
        => OneCallWith(StaticTable(regs[last.reg].arg_count, last.ev))

\* a static listener of arity 3 was called with (object, old, new)
C17_Witness ==
    /\ NotifiedChange
    /\ regs[last.reg].cls = "StaticTraitChangeNotifyWrapper"
    /\ regs[last.reg].arg_count = 3
    /\ OneCallWith(<<last.ev.object, last.ev.old, last.ev.new>>)

\* the arity of the listener the last construction was given: a bound
\* method's receiver does not count
DeclaredArity ==
    IF last.form = "method" THEN last.co_argcount - 1 ELSE last.co_argcount

\* C18: the construction of a wrapper fails with TraitNotificationError
\* exactly when the arity of the listener is above 4, the receiver of a
\* bound method not counted; a failed construction leaves the wrappers and
\* the lists as they were, a successful one leaves a wrapper of that arity.
C18_ArityAboveFourRejected ==
    [][last'.op = "register" =>
           /\ (last'.raised = TraitNotificationError) <=> (DeclaredArity' > 4)
           /\ last'.raised \in {"none", TraitNotificationError}
           /\ last'.raised # "none" =>
                  (regs' = regs /\ owner' = owner /\ anytrait' = anytrait)
           /\ last'.raised = "none" =>
                  /\ regs'[last'.reg].cls # "none"
                  /\ regs'[last'.reg].arg_count = DeclaredArity']_vars

\* a bound method that declares six parameters, its receiver included, was
\* rejected, and the list holds nothing
C18_Witness ==
    /\ last.op = "register"
    /\ last.form = "method"
    /\ last.co_argcount = 6
    /\ last.raised = TraitNotificationError
    /\ regs[last.reg].cls = "none"
    /\ owner = <<>>

\* a bound method that declares five parameters, its receiver included, was
\* accepted with arity 4
C18_WitnessAccepted ==
    /\ last.op = "register"
    /\ last.form = "method"
    /\ last.co_argcount = 5
    /\ last.raised = "none"
    /\ regs[last.reg].arg_count = 4

(***************************************************************************)
(* Properties of the threads' stacks (HandlerSpec).                        *)
(***************************************************************************)
\* the last call was a successful push with main set
DesignatingPush ==
    /\ last.op = "push"
    /\ last.main
    /\ last.raised = "none"

\* the stack thread t starts with on its first use
StartStack(t) == GetHandlers(t)

C20_OtherStacksUntouched ==
    [][last'.op \in {"push", "pop"} =>
           \A u \in Threads \ {last'.t} :
               /\ handlers'[u] = handlers[u]
               /\ u \in has_handlers' <=> u \in has_handlers]_vars

\* the main thread popped its record while another thread's stack, begun
\* with that record, holds two records
C20_Witness ==
    /\ last.op = "pop"
    /\ last.raised = "none"
    /\ main_thread = last.t
    /\ \E u \in has_handlers \ {last.t} :
           /\ Len(handlers[u]) = 2
           /\ handlers[u][1].id # 0

(***************************************************************************)
(* Properties of equals (EqualsSpec).                                      *)
(***************************************************************************)
\* the wrapper holds a bound method by its name and a weak reference to its
\* receiver
WeaklyBound(w) == w.call_kind = "rebind_call"

\* the handler given to the last equals is the wrapper itself
SameObject == last.callback.kind = "wrapper" /\ last.callback.id = last.reg

\* the handler is a bound method of the receiver the wrapper is bound to,
\* with the same name, and the wrapper still refers to that receiver
SameBoundMethod(w) ==
    /\ last.callback.kind = "method"
    /\ WeaklyBound(w)
    /\ last.callback.name = w.name
    /\ w.object = "ref"
    /\ w.alive
    /\ last.callback.im_self = Receiver

\* the wrapper holds a function and the handler is equal to it
SameFunction(w) ==
    /\ ~WeaklyBound(w)
    /\ last.callback.kind = "function"
    /\ last.callback.func = w.handler

\* C21 as stated: equals on a dynamic wrapper returns true exactly when the
\* handler is the wrapper itself, or a bound method with the wrapper's name
\* on the wrapper's live receiver, or equal to the function of a wrapper
\* that is not weakly bound; in every other case it returns false.
C21_EqualsCases ==
    (last.op = "equals" /\ regs[last.reg].cls \in DynamicClasses) =>
        IF SameObject \/ SameBoundMethod(regs[last.reg])
                      \/ SameFunction(regs[last.reg])
        THEN last.result = "True"
        ELSE last.result = "False"

\* C27 as stated: equals never raises, and on a weakly bound wrapper that
\* is disposed or whose receiver is gone it returns false for every handler
\* but the wrapper itself, a bound method of the same name included.
C27_EqualsNeverRaises ==
    last.op = "equals" =>
        /\ last.raised = "none"
        /\ (/\ WeaklyBound(regs[last.reg])
            /\ regs[last.reg].object = None \/ ~regs[last.reg].alive
            /\ ~SameObject) => last.result = "False"

(***************************************************************************)
(* Properties of the started threads (NotifySpec).                         *)
(***************************************************************************)
\* the last step was the run of a started thread whose listener raised an
\* Exception
UnitRaised ==
    /\ last.op = "unit"
    /\ last.excp \in CaughtExceptions

\* C22 as stated: when the listener raises in a started thread,
\* handle_exception is called in that thread, which calls the handler of
\* the top record of that thread's own stack with (object, name, old, new).
C22_UnitRoutesToOwnStack ==
    UnitRaised =>
        /\ Len(last.hcalls) = 1
        /\ last.hcalls[1].handler = Top(GetHandlers(DetachedUnit)).handler
        /\ Len(last.hcalls[1].args) = 4

\* C23: a notification to a NewTraitChangeNotifyWrapper returns before the
\* listener runs (no listener call in the calling thread), raises nothing
\* and calls no exception handler when it has started the thread; and the
\* run of the started thread, whatever the listener raises, raises nothing
\* to any caller and calls no handler of any thread's stack.
C23_DetachedNeverReachesCaller ==
    /\ (last.op = "notify" /\ regs[last.reg].cls = "NewTraitChangeNotifyWrapper")
           => /\ last.calls = <<>>
              /\ last.ui_calls = <<>>
              /\ last.started # <<>> =>
                     (last.raised = "none" /\ last.hcalls = <<>>
                                          /\ last.excp = "none")
    /\ last.op = "unit" => (last.raised = "none" /\ last.hcalls = <<>>)

\* a started thread ran, its listener raised ValueError, and no thread's
\* stack was used for it
C23_Witness ==
    /\ last.op = "unit"
    /\ last.excp = "ValueError"
    /\ last.calls # <<>>
    /\ last.hcalls = <<>>
    /\ last.raised = "none"
    /\ has_handlers = {}

(***************************************************************************)
(* Properties of the notifications that go to the UI thread (NotifySpec).  *)
(***************************************************************************)
\* the last call was a notification of a change to a
\* FastUITraitChangeNotifyWrapper that has a listener to call
UINotified ==
    /\ last.op = "notify"
    /\ last.ev.old # Uninitialized
    /\ regs[last.reg].cls = "FastUITraitChangeNotifyWrapper"
    /\ regs[last.reg].call_kind = "rebind_call" =>
           (regs[last.reg].alive /\ regs[last.reg].object = "ref")

\* the listener was called once, by the notifying thread, and ui_handler
\* was not called
CalledInline ==
    /\ Len(last.calls) = 1
    /\ last.calls[1].by = last.t
    /\ last.calls[1].args = PerAttributeTable(regs[last.reg].arg_count, last.ev)
    /\ last.ui_calls = <<>>

\* ui_handler was called once with the listener's arguments, and the
\* listener was not called
Marshaled ==
    /\ last.calls = <<>>
    /\ Len(last.ui_calls) = 1
    /\ last.ui_calls[1].reg = last.reg
    /\ last.ui_calls[1].args =
           PerAttributeTable(regs[last.reg].arg_count, last.ev)

\* C24 as stated: a notification to a FastUITraitChangeNotifyWrapper calls
\* the listener in the notifying thread if and only if that thread is the
\* UI thread; from any other thread it calls ui_handler once with the
\* listener and its arguments and does not call the listener.
C24_InlineIffUIThread ==
    UINotified => IF last.t = ui_thread THEN CalledInline ELSE Marshaled

\* C24 amended: the same, provided ui_handler is not None when the
\* notifying thread is not the UI thread; with ui_handler None neither the
\* listener nor a ui_handler is called.
C24_InlineIffUIThreadOrMarshaled ==
    UINotified =>
        IF last.t = ui_thread
        THEN CalledInline
        ELSE IF ui_handler # None
             THEN Marshaled
             ELSE last.calls = <<>> /\ last.ui_calls = <<>>

\* a thread that is not the UI thread notified, and ui_handler was called
C24_Witness ==
    /\ UINotified
    /\ ui_thread \in Threads \ {last.t}
    /\ ui_handler # None
    /\ Marshaled

\* C28: while set_ui_handler has never been called, a notification of a
\* change to a FastUITraitChangeNotifyWrapper from any thread does not call
\* the listener; the failure of the call of ui_handler is handed to the
\* handler of the top record of the notifying thread with
\* (object, name, old, new), and nothing is raised unless that record
\* re-raises.
C28_NoUIHandlerIsHandled ==
    (UINotified /\ ui_thread = NoThread) =>
        /\ last.calls = <<>>
        /\ last.ui_calls = <<>>
        /\ last.started = <<>>
        /\ last.excp = "TypeError"
        /\ Len(last.hcalls) = 1
        /\ last.hcalls[1].id = TopOfCaller.id
        /\ last.hcalls[1].handler = TopOfCaller.handler
        /\ last.hcalls[1].args = <<last.ev.object, last.ev.trait_name,
                                   last.ev.old, last.ev.new>>
        /\ (last.raised # "none") <=> TopOfCaller.reraise_exceptions

\* such a notification under a record that does not re-raise returned
C28_Witness ==
    /\ UINotified
    /\ ui_thread = NoThread
    /\ ~TopOfCaller.reraise_exceptions
    /\ Len(last.hcalls) = 1
    /\ last.raised = "none"
    /\ last.calls = <<>>

(***************************************************************************)
(* Properties of the started threads under fairness (DetachedSpec).        *)
(***************************************************************************)
\* the threads a notification can start: a wrapper and projected arguments
UnitRecords ==
    [reg : RegIds,
     args : UNION {{PerAttributeTable(a, ev) : a \in 0 .. MaxArguments} :
                      ev \in {e \in Events : e.old # Uninitialized}}]

Pending(u) == \E i \in 1 .. Len(units) : units[i] = u

\* the last step was the run of the thread u: one call of the listener with
\* u's arguments, made by the started thread
RanOnce(u) ==
    /\ last.op = "unit"
    /\ last.calls = <<[reg |-> u.reg, args |-> u.args, by |-> DetachedUnit]>>

\* a notification of a change to a NewTraitChangeNotifyWrapper that has a
\* listener to call starts exactly one thread, with the projected arguments
StartsOneUnit ==
    (/\ last.op = "notify"
     /\ last.ev.old # Uninitialized
     /\ regs[last.reg].cls = "NewTraitChangeNotifyWrapper"
     /\ regs[last.reg].call_kind = "rebind_call" =>
            (regs[last.reg].alive /\ regs[last.reg].object = "ref"))
        => /\ last.calls = <<>>
           /\ last.started =
                  <<[reg |-> last.reg,
                     args |-> PerAttributeTable(regs[last.reg].arg_count,
                                                last.ev)]>>
           /\ Pending(last.started[1])

\* the started threads change only when a notification starts some or when
\* one of them runs, calls the listener once and ends
UnitsStep ==
    units' # units =>
        \/ last'.op = "notify" /\ units' = units \o last'.started
        \/ /\ last'.op = "unit"
           /\ Len(last'.calls) = 1
           /\ last'.calls[1].by = DetachedUnit
           /\ \E i \in 1 .. Len(units) :
                  /\ units[i] = [reg |-> last'.calls[1].reg,
                                 args |-> last'.calls[1].args]
                  /\ units' = SubSeq(units, 1, i - 1)
                                  \o SubSeq(units, i + 1, Len(units))

\* C25: under fair scheduling, a notification of a change (old not the
\* sentinel) to a live NewTraitChangeNotifyWrapper starts exactly one
\* thread, and every started thread eventually calls the listener exactly
\* once with the projected arguments, in a thread that is not the notifying
\* one, and then ends.
C25_StartedUnitEventuallyRunsOnce ==
    /\ []StartsOneUnit
    /\ [][UnitsStep]_vars
    /\ \A u \in UnitRecords : Pending(u) ~> RanOnce(u)

\* a started thread has run: its listener was called once, outside the
\* notifying threads, returned, and no thread is left to run
C25_Witness ==
    /\ last.op = "unit"
    /\ last.excp = "none"
    /\ Len(last.calls) = 1
    /\ last.calls[1].by \notin Threads
    /\ units = <<>>

(***************************************************************************)
(* The arity of the wrappers that construction accepts (ProjectionSpec).   *)
(***************************************************************************)
\* C26 as stated: every wrapper that construction accepted, for a function
\* or for a bound method of any declared number of positional parameters
\* (none included), has an arity in 0 .. 4, and no notification fails for
\* lack of a call_N / rebind_call_N of that arity.
C26_AcceptedArityHasProjection ==
    /\ \A r \in RegIds :
          regs[r].cls # "none" => regs[r].arg_count \in 0 .. MaxArguments
    /\ last.op = "notify" =>
          ~ /\ regs[last.reg].arg_count \notin 0 .. MaxArguments
            /\ last.raised = "AttributeError"

====
